---- MODULE Spec2Model ----
(***************************************************************************)
(* The event cache of the church web site: the IndexedDB object store      *)
(* "events" (keyed by id), its localStorage mirror "churchEvents", and the *)
(* remote-sync functions built on them (utils/storage).                    *)
(*                                                                         *)
(* Every exported function is one action: the whole async function, run    *)
(* to completion with no other call overlapping it.  What the environment  *)
(* decides is nondeterministic: the HTTP outcome and body, the clock and   *)
(* the random id are drawn with \E, and a storage function is a set of     *)
(* outcomes, one for each way its requests can end (the open request, the  *)
(* getAll/clear/put/delete request, localStorage.setItem).  The variable   *)
(* last records the call that has just settled (its arguments, what it     *)
(* met, how its promise settled, the stores before it) until the caller    *)
(* has taken the result (Returns); a call starts when none is outstanding. *)
(*                                                                         *)
(* Strings that the code inspects (image and media urls) are sequences of  *)
(* tokens, so that startsWith is computed; ids and titles are atoms.       *)
(* An event is a function from its keys to values, so that a missing key,  *)
(* object spread and JSON's dropping of undefined values are computed.     *)
(***************************************************************************)
EXTENDS Integers, Sequences, FiniteSets, TLC

VARIABLES
    db,     \* the module-level handle: "null", "live", or "closed" (a handle whose connection is gone)
    idb,    \* the records of object store "events" (at most one per key)
    ls,     \* localStorage item "churchEvents": <<>> when absent, else <<json text>>
    last,   \* the call that has just settled, NoCall once its caller has taken the result
    saved,  \* <<S, store before>> while the most recent call is a replaceAll(S)
            \* that resolved, <<"migration">> while it is a Migration Routine
            \* whose replaceAll resolved, else <<>>
    ncalls, \* the number of calls made so far
    run,    \* the calls in flight together and what their opens did; NoRun
            \* where every call runs to completion alone
    signals, \* how many 'localStorageUpdate' events the admin page has dispatched
    deleted, \* the ids whose delete has completed and that no call has put
             \* into the object store since
    img     \* the image helper's call: its arguments and what it returned

vars == <<db, idb, ls, last, saved, ncalls, run, signals, deleted, img>>

----------------------------------------------------------------------------
\* Bounds of the model

\* a behaviour makes at most MaxCalls calls, and the getAll() that reads back
\* a replaceAll on top of them
MaxCalls == 2
\* clock readings of the browser are 1..MaxTime (the server stamps its records 0)
MaxTime == 1
\* at most MaxOverlap calls are in flight together
MaxOverlap == 2
\* an image reference is a head followed by at most MaxTail tokens
MaxTail == 3

----------------------------------------------------------------------------
\* Values

\* ids the server hands out, and values of crypto.randomUUID()
ServerIds == {"e1", "e2"}
UUIDs == {"u1"}
\* IndexedDB returns records in ascending key order
KeyOrder == <<"e1", "e2", "e3", "u1", "u2">>
Times == 1..MaxTime
ServerTime == 0

EmptyString == <<>>
DataPrefix == <<"data:">>
DataImage == <<"data:", "image/jpeg;base64,AAAA">>
HttpImage == <<"https://", "images.example.org/cover.jpg">>
\* the value of a key whose expression evaluated to undefined
Undefined == <<"undefined">>

MediaEmbedded == [id |-> "m1", url |-> DataImage]
MediaLinked == [id |-> "m2", url |-> HttpImage]

\* String.prototype.startsWith
startsWith(s, prefix) ==
    /\ Len(s) >= Len(prefix)
    /\ SubSeq(s, 1, Len(prefix)) = prefix

\* object spread {...a, ...b}: the keys of both, b's values win
Spread(a, b) ==
    [k \in (DOMAIN a) \cup (DOMAIN b) |-> IF k \in DOMAIN b THEN b[k] ELSE a[k]]

\* the elements of an array
Elems(s) == {s[i] : i \in 1..Len(s)}

\* the ids of an array or set of events
IdsOf(S) == {e.id : e \in S}

----------------------------------------------------------------------------
\* JSON

\* the keys of an event whose value is undefined (of the keys the code
\* assigns, only image can be: ids, titles and timestamps are never tested)
UndefinedKeys(e) == {k \in (DOMAIN e) \cap {"image"} : e[k] = Undefined}

\* JSON.stringify of an array of events: keys whose value is undefined are
\* dropped; the text is represented by the array it denotes
JSONStringify(events) ==
    [i \in DOMAIN events |->
        [k \in (DOMAIN events[i]) \ UndefinedKeys(events[i]) |-> events[i][k]]]

\* JSON.parse of such a text
JSONParse(text) == text

----------------------------------------------------------------------------
\* Local Structured Store (IndexedDB) and Legacy Flat Cache (localStorage)

\* The two stores and the handle travel together as w = [db, idb, ls].  A
\* function's outcome is [status, value, w, calls]: how its promise settled
\* ("resolved" or "rejected"), the value it resolved with (an array, or for
\* a single record <<record>>, <<>> for undefined), the stores afterwards,
\* and the storage functions that ran with how each ended.

Settled(status, value, w, calls) ==
    [status |-> status, value |-> value, w |-> w, calls |-> calls]

\* initDB: resolves with the cached handle when there is one; else the open
\* request succeeds (the handle is cached) or fails
initDB(dbv) ==
    IF dbv # "null" THEN {[ok |-> TRUE, db |-> dbv]}
    ELSE {[ok |-> TRUE, db |-> "live"], [ok |-> FALSE, db |-> "null"]}

\* database.transaction(...) throws on a handle whose connection is closed
TransactionThrows(dbv) == dbv = "closed"

\* store.getAll(): every record, in key order
StoreGetAll(store) ==
    LET keys == SelectSeq(KeyOrder, LAMBDA k : k \in IdsOf(store))
    IN  [i \in 1..Len(keys) |-> CHOOSE e \in store : e.id = keys[i]]

\* store.put(event) for each event in turn, after store.clear()
StoreClearAndPutAll(events) ==
    {events[i] : i \in {j \in 1..Len(events) :
                           \A k \in (j+1)..Len(events) : events[k].id # events[j].id}}

\* the index of the first event that has no value at the store's key path
\* (store.put throws DataError for it), 0 when every event has one
FirstWithoutKey(events) ==
    LET bad == {i \in DOMAIN events : "id" \notin DOMAIN events[i]}
    IN  IF bad = {} THEN 0 ELSE CHOOSE i \in bad : \A j \in bad : i <= j

\* the events put before store.put throws, all of them when it does not
PutBeforeThrow(events) ==
    IF FirstWithoutKey(events) = 0 THEN events
    ELSE SubSeq(events, 1, FirstWithoutKey(events) - 1)

\* localStorage.getItem('churchEvents') parsed, [] when the item is absent
LegacyContent(lsv) == IF lsv # <<>> THEN JSONParse(lsv[1]) ELSE <<>>

\* getAllEvents.  A failed open and a throwing transaction() are caught and
\* answered from localStorage; the promise of the getAll request is returned
\* without await, so its rejection is not caught.
getAllEvents(w) ==
    UNION {
        LET w1 == [w EXCEPT !.db = o.db]
        IN  IF o.ok /\ ~TransactionThrows(o.db)
            THEN {Settled("resolved", StoreGetAll(w.idb), w1, <<"getAll:store">>),
                  Settled("rejected", <<>>, w1, <<"getAll:rejected">>)}
            ELSE {Settled("resolved", LegacyContent(w.ls), w1, <<"getAll:legacy">>)}
        : o \in initDB(w.db)}

\* a copy that filters the media list but keeps the cover image as it is
Lightweight_KeepsImage(e) ==
    Spread(e,
      [media |-> IF "media" \in DOMAIN e
                 THEN SelectSeq(e.media, LAMBDA m : ~startsWith(m.url, DataPrefix))
                 ELSE <<>>,
       image |-> IF "image" \in DOMAIN e THEN e.image ELSE Undefined])

\* the copy of an event that goes to localStorage
Lightweight(e) ==
    Spread(e,
      [media |-> IF "media" \in DOMAIN e
                 THEN SelectSeq(e.media, LAMBDA m : ~startsWith(m.url, DataPrefix))
                 ELSE <<>>,
       image |-> IF "image" \in DOMAIN e
                 THEN (IF startsWith(e.image, DataPrefix) THEN EmptyString ELSE e.image)
                 ELSE Undefined])

\* events.map(e => ({...}))
lightweightEvents(events) == [i \in DOMAIN events |-> Lightweight(events[i])]

\* saveAllEvents that puts the lightweight copies into the object store too
saveAllEvents_StoresLightweight(w, events) ==
    UNION {
        LET w1 == [w EXCEPT !.db = o.db]
        IN  IF ~o.ok \/ TransactionThrows(o.db)
            THEN {Settled("rejected", <<>>, w1, <<"save:aborted">>)}
            ELSE IF FirstWithoutKey(events) # 0
            THEN {Settled("rejected", <<>>, w1, <<"save:aborted">>),
                  Settled("rejected", <<>>,
                          [w1 EXCEPT !.idb = StoreClearAndPutAll(lightweightEvents(PutBeforeThrow(events)))],
                          <<"save:put-threw">>)}
            ELSE {Settled("rejected", <<>>, w1, <<"save:aborted">>),
                  Settled("rejected", <<>>,
                          [w1 EXCEPT !.idb = StoreClearAndPutAll(lightweightEvents(events))],
                          <<"save:mirror-failed">>),
                  Settled("resolved", <<>>,
                          [w1 EXCEPT !.idb = StoreClearAndPutAll(lightweightEvents(events)),
                                     !.ls = <<JSONStringify(lightweightEvents(events))>>],
                          <<"save:ok">>)}
        : o \in initDB(w.db)}

\* saveAllEvents without store.clear(): the records already stored stay
saveAllEvents_NoClear(w, events) ==
    UNION {
        LET w1 == [w EXCEPT !.db = o.db]
            kept == {e \in w.idb : e.id \notin IdsOf(Elems(PutBeforeThrow(events)))}
        IN  IF ~o.ok \/ TransactionThrows(o.db)
            THEN {Settled("rejected", <<>>, w1, <<"save:aborted">>)}
            ELSE IF FirstWithoutKey(events) # 0
            THEN {Settled("rejected", <<>>, w1, <<"save:aborted">>),
                  Settled("rejected", <<>>,
                          [w1 EXCEPT !.idb = kept \cup StoreClearAndPutAll(PutBeforeThrow(events))],
                          <<"save:put-threw">>)}
            ELSE {Settled("rejected", <<>>, w1, <<"save:aborted">>),
                  Settled("rejected", <<>>,
                          [w1 EXCEPT !.idb = kept \cup StoreClearAndPutAll(events)],
                          <<"save:mirror-failed">>),
                  Settled("resolved", <<>>,
                          [w1 EXCEPT !.idb = kept \cup StoreClearAndPutAll(events),
                                     !.ls = <<JSONStringify(lightweightEvents(events))>>],
                          <<"save:ok">>)}
        : o \in initDB(w.db)}

\* saveAllEvents.  Every failure is rethrown.  A failed open, a throwing
\* transaction() and a failed clear or put request (it aborts the
\* transaction) leave both stores as they were ("save:aborted").  A
\* store.put that throws (an event without id) rejects the function while
\* the transaction, which nothing aborts, commits the clear and the puts
\* made so far ("save:put-threw").  A throwing localStorage.setItem comes
\* after the puts ("save:mirror-failed").
saveAllEvents(w, events) ==
    UNION {
        LET w1 == [w EXCEPT !.db = o.db]
        IN  IF ~o.ok \/ TransactionThrows(o.db)
            THEN {Settled("rejected", <<>>, w1, <<"save:aborted">>)}
            ELSE IF FirstWithoutKey(events) # 0
            THEN {Settled("rejected", <<>>, w1, <<"save:aborted">>),
                  Settled("rejected", <<>>,
                          [w1 EXCEPT !.idb = StoreClearAndPutAll(PutBeforeThrow(events))],
                          <<"save:put-threw">>)}
            ELSE {Settled("rejected", <<>>, w1, <<"save:aborted">>),
                  Settled("rejected", <<>>,
                          [w1 EXCEPT !.idb = StoreClearAndPutAll(events)],
                          <<"save:mirror-failed">>),
                  Settled("resolved", <<>>,
                          [w1 EXCEPT !.idb = StoreClearAndPutAll(events),
                                     !.ls = <<JSONStringify(lightweightEvents(events))>>],
                          <<"save:ok">>)}
        : o \in initDB(w.db)}

\* deleteEvent: store.delete(eventId); every failure is rethrown
deleteEvent(w, eventId) ==
    UNION {
        LET w1 == [w EXCEPT !.db = o.db]
        IN  IF ~o.ok \/ TransactionThrows(o.db)
            THEN {Settled("rejected", <<>>, w1, <<"delete:rejected">>)}
            ELSE {Settled("rejected", <<>>, w1, <<"delete:rejected">>),
                  Settled("resolved", <<>>,
                          [w1 EXCEPT !.idb = {e \in w.idb : e.id # eventId}],
                          <<"delete:ok">>)}
        : o \in initDB(w.db)}

\* migrateFromLocalStorage: saveAllEvents of the parsed item when there is
\* one; a failure is logged and swallowed
migrateFromLocalStorage(w) ==
    IF w.ls # <<>>
    THEN {Settled("resolved", <<>>, s.w, s.calls) : s \in saveAllEvents(w, JSONParse(w.ls[1]))}
    ELSE {Settled("resolved", <<>>, w, <<>>)}

\* clearEventsBrowserCache without localStorage.removeItem
clearEventsBrowserCache_KeepsLegacy(w) ==
    UNION {
        LET w1 == [w EXCEPT !.db = o.db]
        IN  IF ~o.ok \/ TransactionThrows(o.db)
            THEN {Settled("resolved", <<>>, w1, <<"clear:failed">>)}
            ELSE {Settled("resolved", <<>>, w1, <<"clear:failed">>),
                  Settled("resolved", <<>>, [w1 EXCEPT !.idb = {}], <<"clear:ok">>)}
        : o \in initDB(w.db)}

\* clearEventsBrowserCache: store.clear(), its failures swallowed; then the
\* localStorage item is removed
clearEventsBrowserCache(w) ==
    UNION {
        LET w1 == [w EXCEPT !.db = o.db, !.ls = <<>>]
        IN  IF ~o.ok \/ TransactionThrows(o.db)
            THEN {Settled("resolved", <<>>, w1, <<"clear:failed">>)}
            ELSE {Settled("resolved", <<>>, w1, <<"clear:failed">>),
                  Settled("resolved", <<>>, [w1 EXCEPT !.idb = {}], <<"clear:ok">>)}
        : o \in initDB(w.db)}

----------------------------------------------------------------------------
\* Remote Sync Client.  env is what the environment decides during the
\* call: remote ("ok", "http" for a non-2xx status, "network" for a rejected
\* fetch, "badbody" for a 2xx whose body does not parse), body (what a 2xx
\* carries), uuid (crypto.randomUUID()) and now (new Date()).

\* a later step of a function: its calls follow those made so far
After(calls, t) == [t EXCEPT !.calls = calls \o t.calls]

\* syncEventsWithSupabase without the response.ok test: a non-2xx answer is
\* read like a 2xx one, and its body holds no events
syncEventsWithSupabase_IgnoresStatus(w, env) ==
    IF env.remote \in {"ok", "http"}
    THEN UNION {
             IF s.status = "resolved"
             THEN {Settled("resolved", env.body, s.w, s.calls)}
             ELSE {After(s.calls, g) : g \in getAllEvents(s.w)}
             : s \in saveAllEvents(w, env.body)}
    ELSE getAllEvents(w)

\* syncEventsWithSupabase
syncEventsWithSupabase(w, env) ==
    IF env.remote = "ok"
    THEN UNION {
             IF s.status = "resolved"
             THEN {Settled("resolved", env.body, s.w, s.calls)}
             ELSE {After(s.calls, g) : g \in getAllEvents(s.w)}
             : s \in saveAllEvents(w, env.body)}
    ELSE IF env.remote = "http"
    THEN UNION {
             IF g.status = "resolved"
             THEN {g}
             ELSE {After(g.calls, g2) : g2 \in getAllEvents(g.w)}
             : g \in getAllEvents(w)}
    ELSE getAllEvents(w)

\* a catch block: the outcome t of the try block stands when it resolved,
\* otherwise the handler's outcomes follow it
Catch(t, handled) ==
    IF t.status = "resolved"
    THEN {t}
    ELSE {After(t.calls, u) : u \in handled}

\* the tail shared by create and update once getAllEvents has settled as g:
\* await saveAllEvents(events), then return result
ThenSave(g, events, result) ==
    IF g.status = "rejected"
    THEN {g}
    ELSE {After(g.calls,
                [s EXCEPT !.value = IF s.status = "resolved" THEN result ELSE <<>>])
          : s \in saveAllEvents(g.w, events)}

\* the record createEventWithSync builds in its catch block
LocalEvent(eventData, uuid, now) ==
    Spread([id |-> uuid, createdAt |-> now, updatedAt |-> now], eventData)

\* the catch block of createEventWithSync
createLocalOnly(w, eventData, env) ==
    LET event == LocalEvent(eventData, env.uuid, env.now)
    IN  UNION {ThenSave(g, Append(g.value, event), <<event>>) : g \in getAllEvents(w)}

\* createEventWithSync that saves [newEvent] instead of [...allEvents, newEvent]
createEventWithSync_ForgetsSnapshot(w, eventData, env) ==
    IF env.remote = "ok"
    THEN UNION {
             Catch(t, createLocalOnly(t.w, eventData, env))
             : t \in UNION {ThenSave(g, <<env.body>>, <<env.body>>)
                            : g \in getAllEvents(w)}}
    ELSE createLocalOnly(w, eventData, env)

\* createEventWithSync without its catch block
createEventWithSync_NoFallback(w, eventData, env) ==
    IF env.remote = "ok"
    THEN UNION {ThenSave(g, Append(g.value, env.body), <<env.body>>)
                : g \in getAllEvents(w)}
    ELSE {Settled("rejected", <<>>, w, <<>>)}

\* createEventWithSync
createEventWithSync(w, eventData, env) ==
    IF env.remote = "ok"
    THEN UNION {
             Catch(t, createLocalOnly(t.w, eventData, env))
             : t \in UNION {ThenSave(g, Append(g.value, env.body), <<env.body>>)
                            : g \in getAllEvents(w)}}
    ELSE createLocalOnly(w, eventData, env)

\* Array.prototype.find by id: <<the first match>>, <<>> for undefined
FindById(events, eventId) ==
    LET hits == SelectSeq(events, LAMBDA e : e.id = eventId)
    IN  IF hits = <<>> THEN <<>> ELSE <<hits[1]>>

\* the snapshot as it was read, the server's record left out
Spliced_Nothing(allEvents, eventId, updatedEvent) == allEvents

\* allEvents.map(e => e.id === eventId ? updatedEvent : e)
Spliced(allEvents, eventId, updatedEvent) ==
    [i \in DOMAIN allEvents |->
        IF allEvents[i].id = eventId THEN updatedEvent ELSE allEvents[i]]

\* the record the catch block of updateEventWithSync puts in place of e
LocalMerge(e, eventData, now) ==
    Spread(Spread(e, eventData), [updatedAt |-> now])

\* allEvents.map(e => e.id === eventId ? {...e, ...eventData, updatedAt} : e)
Merged(allEvents, eventId, eventData, now) ==
    [i \in DOMAIN allEvents |->
        IF allEvents[i].id = eventId
        THEN LocalMerge(allEvents[i], eventData, now)
        ELSE allEvents[i]]

\* the catch block of updateEventWithSync
updateLocalOnly(w, eventId, eventData, env) ==
    UNION {
        LET updatedEvents == Merged(g.value, eventId, eventData, env.now)
        IN  ThenSave(g, updatedEvents, FindById(updatedEvents, eventId))
        : g \in getAllEvents(w)}

\* updateEventWithSync
updateEventWithSync(w, eventId, eventData, env) ==
    IF env.remote = "ok"
    THEN UNION {
             Catch(t, updateLocalOnly(t.w, eventId, eventData, env))
             : t \in UNION {ThenSave(g, Spliced(g.value, eventId, env.body), <<env.body>>)
                            : g \in getAllEvents(w)}}
    ELSE updateLocalOnly(w, eventId, eventData, env)

\* deleteEventWithSync whose catch block only logs
deleteEventWithSync_RemoteOnly(w, eventId, env) ==
    IF env.remote = "ok"
    THEN UNION {Catch(t, {Settled("resolved", <<>>, t.w, <<>>)}) : t \in deleteEvent(w, eventId)}
    ELSE {Settled("resolved", <<>>, w, <<>>)}

\* deleteEventWithSync
deleteEventWithSync(w, eventId, env) ==
    IF env.remote = "ok"
    THEN UNION {Catch(t, deleteEvent(t.w, eventId)) : t \in deleteEvent(w, eventId)}
    ELSE deleteEvent(w, eventId)

----------------------------------------------------------------------------
\* What the callers and the server supply

\* the form of the admin page, {...formData, media: mediaItems}, without
\* and with an uploaded cover and media
FormPlain == [title |-> "Picnic", image |-> EmptyString, media |-> <<>>]
FormEmbedded == [title |-> "Retreat", image |-> DataImage,
                 media |-> <<MediaEmbedded, MediaLinked>>]
\* a partial object that carries id and timestamps of its own
DataWithIdentity == [id |-> "e2", title |-> "Picnic", createdAt |-> ServerTime,
                     updatedAt |-> ServerTime]
EventData == {FormPlain, FormEmbedded, DataWithIdentity}

\* records as the server returns them: it assigns id and timestamps
ServerRecord(id, data) ==
    Spread(data, [id |-> id, createdAt |-> ServerTime, updatedAt |-> ServerTime])
ServerRecords == {ServerRecord(id, form) : id \in ServerIds, form \in {FormPlain, FormEmbedded}}

\* collections with distinct ids, as arrays
Collections(S) ==
    {StoreGetAll(c) : c \in {c \in SUBSET S : \A x, y \in c : x.id = y.id => x = y}}

\* an event that carries no id
WithoutKey == [title |-> "Untitled", image |-> EmptyString, media |-> <<>>]

\* the arrays handed to saveAllEvents (events: any[]): the collections, and
\* one whose second event carries no id
EventArrays ==
    Collections(ServerRecords) \cup {<<ServerRecord("e1", FormPlain), WithoutKey>>}

Env(remote, body, uuid, now) ==
    [remote |-> remote, body |-> body, uuid |-> uuid, now |-> now]

NoEnv == Env("", <<>>, "", 0)

World == [db |-> db, idb |-> idb, ls |-> ls]

\* the ids in use in either store
KnownIds == IdsOf(idb) \cup IdsOf(Elems(LegacyContent(ls)))

NoCall == [op |-> "none"]

\* no call is in flight and nothing was opened
NoRun == [ops |-> <<>>, opens |-> 0, upgrades |-> 0, schema |-> FALSE,
          conns |-> 0, writer |-> 0, before |-> {}, server |-> {}, clock |-> 0]

\* The record of a call: its arguments (id, data), what the environment
\* decided, the storage functions it ran and how each ended (calls), how
\* its promise settled (status, value), the stores before it, and for a
\* getAll the replaceAll it directly follows (after).
Call(op, id, data, env, t, after) ==
    [op |-> op, id |-> id, data |-> data, remote |-> env.remote, body |-> env.body,
     uuid |-> env.uuid, now |-> env.now,
     calls |-> t.calls, status |-> t.status, value |-> t.value, after |-> after,
     pre_idb |-> idb, pre_ls |-> ls, pre_db |-> db, pre_signals |-> signals]

\* a page that dispatched in a finally block, whatever became of the call
Dispatched_Finally(op, status) ==
    IF op \in {"create", "update", "delete", "clear"} THEN 1 ELSE 0

\* handleSaveEvent, handleDeleteEvent and clearAllMedia dispatch
\* 'localStorageUpdate' on the line after the awaited call, so only when it
\* resolved; the public pages and the local handlers dispatch nothing
Dispatched(op, status) ==
    IF op \in {"create", "update", "delete", "clear"} /\ status = "resolved"
    THEN 1 ELSE 0

\* the ids whose delete has completed, after a call: a resolved delete adds
\* its id; a call that writes a collection of its caller's or the server's
\* takes out the ids it leaves in the store
Deleted(call, store) ==
    IF call.op = "delete"
    THEN IF call.status = "resolved" THEN deleted \cup {call.id} ELSE deleted
    ELSE IF call.op \in {"create", "update", "sync", "replaceAll"}
         THEN deleted \ IdsOf(store)
         ELSE deleted

NoImage == [op |-> "none"]

\* a call settles as t
Settles(call, t, nowSaved) ==
    /\ db' = t.w.db
    /\ idb' = t.w.idb
    /\ ls' = t.w.ls
    /\ last' = call
    /\ saved' = nowSaved
    /\ ncalls' = ncalls + 1
    /\ run' = run
    /\ signals' = signals + Dispatched(call.op, call.status)
    /\ deleted' = Deleted(call, t.w.idb)
    /\ img' = img

\* a call can start
Idle ==
    /\ last = NoCall
    /\ ncalls < MaxCalls

----------------------------------------------------------------------------
Init ==
    /\ db = "null"
    /\ idb = {}
    /\ ls = <<>>
    /\ last = NoCall
    /\ saved = <<>>
    /\ ncalls = 0
    /\ run = NoRun
    /\ signals = 0
    /\ deleted = {}
    /\ img = NoImage

\* getAll(), called directly by the public pages
GetAll ==
    /\ last = NoCall
    /\ ncalls < MaxCalls \/ Len(saved) = 2
    /\ \E t \in getAllEvents(World) :
           Settles(Call("getAll", "", <<>>, NoEnv, t,
                        IF Len(saved) = 2 THEN saved ELSE <<>>), t, <<>>)

\* replaceAll(S), called directly by the admin page's local handlers
ReplaceAll ==
    /\ Idle
    /\ \E S \in EventArrays :
           \E t \in saveAllEvents(World, S) :
               Settles(Call("replaceAll", "", <<>>, Env("", S, "", 0), t, <<>>), t,
                       IF t.status = "resolved" THEN <<S, idb>> ELSE <<>>)

\* the Migration Routine
Migrate ==
    /\ Idle
    /\ \E t \in migrateFromLocalStorage(World) :
           Settles(Call("migrate", "", <<>>, NoEnv, t,
                        IF Len(saved) = 1 THEN saved ELSE <<>>), t,
                   IF t.calls = <<"save:ok">> THEN <<"migration">> ELSE <<>>)

\* clearBrowserCache()
ClearBrowserCache ==
    /\ Idle
    /\ \E t \in clearEventsBrowserCache(World) :
           Settles(Call("clear", "", <<>>, NoEnv, t, <<>>), t, <<>>)

\* fetchAndSync(); a 2xx carries the server's collection
FetchAndSync ==
    /\ Idle
    /\ \E remote \in {"ok", "http", "network", "badbody"} :
           \E R \in IF remote = "ok" THEN EventArrays ELSE {<<>>} :
               LET env == Env(remote, R, "", 0)
               IN  \E t \in syncEventsWithSupabase(World, env) :
                       Settles(Call("sync", "", <<>>, env, t, <<>>), t, <<>>)

\* create(data); a 2xx carries the record the server made of data, under an
\* id nothing uses yet; crypto.randomUUID() yields an id nothing uses yet
Create ==
    /\ Idle
    /\ \E data \in EventData, remote \in {"ok", "http", "network"},
          uuid \in UUIDs \ KnownIds, now \in Times :
           \E sid \in IF remote = "ok" THEN ServerIds \ KnownIds ELSE {""} :
               LET env == Env(remote, IF remote = "ok" THEN ServerRecord(sid, data) ELSE <<>>,
                              uuid, now)
               IN  \E t \in createEventWithSync(World, data, env) :
                       Settles(Call("create", "", data, env, t, <<>>), t, <<>>)

\* update(id, data); a 2xx carries the record the server holds for id
Update ==
    /\ Idle
    /\ \E id \in ServerIds \cup UUIDs, data \in EventData,
          remote \in {"ok", "http", "network"}, now \in Times :
           /\ remote = "ok" => id \in ServerIds
           /\ LET env == Env(remote, IF remote = "ok" THEN ServerRecord(id, data) ELSE <<>>,
                             "", now)
              IN  \E t \in updateEventWithSync(World, id, data, env) :
                      Settles(Call("update", id, data, env, t, <<>>), t, <<>>)

\* delete(id)
Delete ==
    /\ Idle
    /\ \E id \in ServerIds \cup UUIDs, remote \in {"ok", "http", "network"} :
           LET env == Env(remote, <<>>, "", 0)
           IN  \E t \in deleteEventWithSync(World, id, env) :
                   Settles(Call("delete", id, <<>>, env, t, <<>>), t, <<>>)

\* the caller takes the result of the call that settled
Returns ==
    /\ last # NoCall
    /\ last' = NoCall
    /\ UNCHANGED <<db, idb, ls, saved, ncalls, run, signals, deleted, img>>

\* the browser closes the connection behind the handle
ConnectionCloses ==
    /\ last = NoCall
    /\ db = "live"
    /\ db' = "closed"
    /\ UNCHANGED <<idb, ls, last, saved, ncalls, run, signals, deleted, img>>

\* the page is loaded again: the module starts over, the stores persist
PageLoads ==
    /\ last = NoCall
    /\ db # "null"
    /\ db' = "null"
    /\ UNCHANGED <<idb, ls, last, saved, ncalls, run, signals, deleted, img>>

Next ==
    \/ GetAll
    \/ ReplaceAll
    \/ Migrate
    \/ ClearBrowserCache
    \/ FetchAndSync
    \/ Create
    \/ Update
    \/ Delete
    \/ Returns
    \/ ConnectionCloses
    \/ PageLoads

Spec == Init /\ [][Next]_vars

----------------------------------------------------------------------------
\* The Migration Routine on what an earlier version of the site left behind:
\* the localStorage item holds any array of full events (embedded images
\* and media included), the object store any collection.

InitialLegacy == {<<>>} \cup {<<array>> : array \in Collections(ServerRecords)}

InitialStores == {Elems(array) : array \in Collections(ServerRecords)}

MigrationInit ==
    /\ db = "null"
    /\ idb \in InitialStores
    /\ ls \in InitialLegacy
    /\ last = NoCall
    /\ saved = <<>>
    /\ ncalls = 0
    /\ run = NoRun
    /\ signals = 0
    /\ deleted = {}
    /\ img = NoImage

MigrationNext ==
    \/ Migrate
    \/ Returns
    \/ ConnectionCloses
    \/ PageLoads

MigrationSpec == MigrationInit /\ [][MigrationNext]_vars

----------------------------------------------------------------------------
\* Deletes on a site in use: the object store holds any collection and the
\* localStorage item is the mirror the last saveAllEvents wrote of it.

DeletionInit ==
    /\ db = "null"
    /\ idb \in InitialStores
    /\ ls = <<JSONStringify(lightweightEvents(StoreGetAll(idb)))>>
    /\ last = NoCall
    /\ saved = <<>>
    /\ ncalls = 0
    /\ run = NoRun
    /\ signals = 0
    /\ deleted = {}
    /\ img = NoImage

DeletionNext ==
    \/ Delete
    \/ GetAll
    \/ Migrate
    \/ Create
    \/ FetchAndSync
    \/ Returns
    \/ ConnectionCloses
    \/ PageLoads

DeletionSpec == DeletionInit /\ [][DeletionNext]_vars

----------------------------------------------------------------------------
\* Calls in flight together.  getAllEvents and saveAllEvents are cut at
\* their awaits: the call up to the open request, the open request's
\* answer, and the requests of the transaction one by one.  A readwrite
\* transaction holds the object store from its first request to its end
\* (run.writer), and no other transaction runs on the store meanwhile.

Procs == 1..MaxOverlap

\* what the calls in flight write, and what the store holds before them
OverlapArrays ==
    { <<ServerRecord("e1", FormPlain), ServerRecord("e2", FormPlain)>>,
      <<ServerRecord("e2", FormEmbedded)>>,
      <<ServerRecord("e1", FormPlain), WithoutKey>> }

OverlapStores == {{}, {ServerRecord("e2", FormPlain)}}

\* a call: which function, where it stands, its argument, the index of the
\* next event to put, the connection initDB resolved with, the store when
\* its transaction began, how it settled, and whether a getAll was in
\* flight together with a saveAllEvents
IdleOp ==
    [op |-> "none", pc |-> "idle", events |-> <<>>, i |-> 0, handle |-> 0,
     undo |-> {}, status |-> "", value |-> <<>>, tag |-> "", overlaps |-> FALSE]

InFlight(o) == o.pc \notin {"idle", "done"}

Done(o, status, value, tag) ==
    [o EXCEPT !.pc = "done", !.status = status, !.value = value, !.tag = tag]

OverlapInit ==
    /\ db = "null"
    /\ idb \in OverlapStores
    /\ ls = IF idb = {} THEN <<>>
            ELSE <<JSONStringify(lightweightEvents(StoreGetAll(idb)))>>
    /\ last = NoCall
    /\ saved = <<>>
    /\ ncalls = 0
    /\ run = [NoRun EXCEPT !.ops = [p \in Procs |-> IdleOp],
                           !.schema = idb # {},
                           !.before = idb]
    /\ signals = 0
    /\ deleted = {}
    /\ img = NoImage

\* a call starts and runs up to its first await: initDB resolves with the
\* cached handle, or issues indexedDB.open when db is still null
OverlapCalls ==
    \E p \in Procs, op \in {"getAll", "replaceAll"} :
        \E events \in IF op = "replaceAll" THEN OverlapArrays ELSE {<<>>} :
            /\ run.ops[p].pc = "idle"
            /\ \A q \in 1..(p - 1) : run.ops[q].pc # "idle"
            /\ LET started ==
                       [IdleOp EXCEPT
                           !.op = op,
                           !.events = events,
                           !.pc = IF db # "null" THEN "transaction" ELSE "opening",
                           !.handle = IF db # "null" THEN run.conns ELSE 0,
                           !.overlaps = /\ op = "getAll"
                                        /\ \E q \in Procs :
                                               /\ run.ops[q].op = "replaceAll"
                                               /\ InFlight(run.ops[q])]
                   ops == [q \in Procs |->
                              IF q = p THEN started
                              ELSE IF /\ op = "replaceAll"
                                      /\ run.ops[q].op = "getAll"
                                      /\ InFlight(run.ops[q])
                                   THEN [run.ops[q] EXCEPT !.overlaps = TRUE]
                                   ELSE run.ops[q]]
               IN  run' = [run EXCEPT !.ops = ops,
                                      !.opens = IF db # "null" THEN @ ELSE @ + 1]
            /\ UNCHANGED <<db, idb, ls, last, saved, ncalls, signals, deleted, img>>

\* request.onsuccess of an open request: db is set to the new connection;
\* onupgradeneeded has created the object store when there was none
OpenSucceeds ==
    \E p \in Procs :
        /\ run.ops[p].pc = "opening"
        /\ db' = "live"
        /\ run' = [run EXCEPT !.conns = @ + 1,
                               !.schema = TRUE,
                               !.upgrades = IF run.schema THEN @ ELSE @ + 1,
                               !.ops[p] = [@ EXCEPT !.pc = "transaction",
                                                    !.handle = run.conns + 1]]
        /\ UNCHANGED <<idb, ls, last, saved, ncalls, signals, deleted, img>>

\* request.onerror of an open request: getAllEvents answers from
\* localStorage, saveAllEvents rethrows
OpenFails ==
    \E p \in Procs :
        /\ run.ops[p].pc = "opening"
        /\ run' = [run EXCEPT !.ops[p] =
                       IF @.op = "getAll"
                       THEN Done(@, "resolved", LegacyContent(ls), "getAll:legacy")
                       ELSE Done(@, "rejected", <<>>, "save:aborted")]
        /\ UNCHANGED <<db, idb, ls, last, saved, ncalls, signals, deleted, img>>

\* the readonly transaction of getAllEvents: store.getAll() succeeds
ReadRuns ==
    \E p \in Procs :
        /\ run.ops[p].pc = "transaction"
        /\ run.ops[p].op = "getAll"
        /\ run.writer = 0
        /\ run' = [run EXCEPT !.ops[p] =
                       Done(@, "resolved", StoreGetAll(idb), "getAll:store")]
        /\ UNCHANGED <<db, idb, ls, last, saved, ncalls, signals, deleted, img>>

\* store.getAll() fails
ReadFails ==
    \E p \in Procs :
        /\ run.ops[p].pc = "transaction"
        /\ run.ops[p].op = "getAll"
        /\ run.writer = 0
        /\ run' = [run EXCEPT !.ops[p] = Done(@, "rejected", <<>>, "getAll:rejected")]
        /\ UNCHANGED <<db, idb, ls, last, saved, ncalls, signals, deleted, img>>

\* the readwrite transaction of saveAllEvents begins: store.clear()
WriteClears ==
    \E p \in Procs :
        /\ run.ops[p].pc = "transaction"
        /\ run.ops[p].op = "replaceAll"
        /\ run.writer = 0
        /\ idb' = {}
        /\ run' = [run EXCEPT !.writer = p,
                               !.ops[p] = [@ EXCEPT !.pc = "putting", !.i = 1,
                                                    !.undo = idb]]
        /\ UNCHANGED <<db, ls, last, saved, ncalls, signals, deleted, img>>

\* store.put(event) of the next event
WritePuts ==
    \E p \in Procs :
        LET o == run.ops[p]
        IN  /\ o.pc = "putting"
            /\ o.i <= Len(o.events)
            /\ "id" \in DOMAIN o.events[o.i]
            /\ idb' = {e \in idb : e.id # o.events[o.i].id} \cup {o.events[o.i]}
            /\ run' = [run EXCEPT !.ops[p] = [@ EXCEPT !.i = @ + 1]]
            /\ UNCHANGED <<db, ls, last, saved, ncalls, signals, deleted, img>>

\* store.put(event) throws for an event without id: saveAllEvents rethrows,
\* and the transaction, which nothing aborts, commits what was done
WritePutThrows ==
    \E p \in Procs :
        LET o == run.ops[p]
        IN  /\ o.pc = "putting"
            /\ o.i <= Len(o.events)
            /\ "id" \notin DOMAIN o.events[o.i]
            /\ run' = [run EXCEPT !.writer = 0,
                                   !.ops[p] = Done(@, "rejected", <<>>, "save:put-threw")]
            /\ UNCHANGED <<db, idb, ls, last, saved, ncalls, signals, deleted, img>>

\* the clear request or a put request fails: the transaction aborts, the
\* store is as it was when the transaction began, saveAllEvents rethrows
WriteRequestFails ==
    \E p \in Procs :
        LET o == run.ops[p]
        IN  /\ o.op = "replaceAll"
            /\ \/ /\ o.pc = "transaction"
                  /\ run.writer = 0
                  /\ idb' = idb
               \/ /\ o.pc = "putting"
                  /\ o.i <= Len(o.events)
                  /\ "id" \in DOMAIN o.events[o.i]
                  /\ idb' = o.undo
            /\ run' = [run EXCEPT !.writer = 0,
                                   !.ops[p] = Done(@, "rejected", <<>>, "save:aborted")]
            /\ UNCHANGED <<db, ls, last, saved, ncalls, signals, deleted, img>>

\* after the last put: localStorage.setItem of the lightweight copies, and
\* the transaction ends
WriteMirrors ==
    \E p \in Procs :
        LET o == run.ops[p]
        IN  /\ o.pc = "putting"
            /\ o.i > Len(o.events)
            /\ ls' = <<JSONStringify(lightweightEvents(o.events))>>
            /\ run' = [run EXCEPT !.writer = 0,
                                   !.ops[p] = Done(@, "resolved", <<>>, "save:ok")]
            /\ UNCHANGED <<db, idb, last, saved, ncalls, signals, deleted, img>>

\* localStorage.setItem throws: saveAllEvents rethrows, the puts stay
WriteMirrorFails ==
    \E p \in Procs :
        LET o == run.ops[p]
        IN  /\ o.pc = "putting"
            /\ o.i > Len(o.events)
            /\ run' = [run EXCEPT !.writer = 0,
                                   !.ops[p] = Done(@, "rejected", <<>>, "save:mirror-failed")]
            /\ UNCHANGED <<db, idb, ls, last, saved, ncalls, signals, deleted, img>>

OverlapNext ==
    \/ OverlapCalls
    \/ OpenSucceeds
    \/ OpenFails
    \/ ReadRuns
    \/ ReadFails
    \/ WriteClears
    \/ WritePuts
    \/ WritePutThrows
    \/ WriteRequestFails
    \/ WriteMirrors
    \/ WriteMirrorFails

OverlapSpec == OverlapInit /\ [][OverlapNext]_vars

----------------------------------------------------------------------------
\* Mutations and fetchAndSync in flight together.  createEventWithSync,
\* updateEventWithSync, deleteEventWithSync and syncEventsWithSupabase are
\* cut at their awaits: the fetch, getAllEvents, and saveAllEvents or
\* deleteEvent.  The database is open and its requests succeed; the
\* transaction of saveAllEvents is one step.  run.server is the collection
\* the remote API holds and run.clock counts the steps taken.

\* ids the server and crypto.randomUUID() hand out to these calls
RaceServerIds == {"e1", "e3"}
RaceUUIDs == {"u1", "u2"}

\* the object store, and the server's collection, before the calls
RaceStores == {{}, {ServerRecord("e2", FormPlain)}}

\* a call: which function, where it stands, its arguments, how the fetch
\* ended, the record it adds or puts in place, the id made for it, the
\* array getAllEvents gave it, the array the server answered, the clock of
\* the catch block, and the steps at which its fetch, its read and its
\* write happened
IdleCall ==
    [op |-> "none", pc |-> "idle", id |-> "", data |-> FormPlain, remote |-> "",
     event |-> FormPlain, newid |-> "", snapshot |-> <<>>, response |-> <<>>,
     now |-> 0, at_remote |-> 0, at_read |-> 0, at_write |-> 0]

UsedIds ==
    IdsOf(idb) \cup IdsOf(run.server) \cup {run.ops[p].newid : p \in DOMAIN run.ops}

RaceInit ==
    /\ db = "live"
    /\ idb \in RaceStores
    /\ ls = <<JSONStringify(lightweightEvents(StoreGetAll(idb)))>>
    /\ last = NoCall
    /\ saved = <<>>
    /\ ncalls = 0
    /\ run = [NoRun EXCEPT !.ops = [p \in Procs |-> IdleCall],
                           !.opens = 1, !.conns = 1, !.schema = TRUE,
                           !.before = idb, !.server = idb]
    /\ signals = 0
    /\ deleted = {}
    /\ img = NoImage

\* a page calls one of the four functions, which issues its fetch
MutationCalls ==
    \E p \in Procs, op \in {"create", "update", "delete", "sync"} :
        /\ run.ops[p].pc = "idle"
        /\ \A q \in 1..(p - 1) : run.ops[q].pc # "idle"
        /\ run' = [run EXCEPT !.ops[p] =
                       [IdleCall EXCEPT
                           !.op = op,
                           !.pc = "remote",
                           !.id = IF op \in {"update", "delete"} THEN "e2" ELSE "",
                           !.data = IF op = "update" THEN FormEmbedded ELSE FormPlain]]
        /\ UNCHANGED <<db, idb, ls, last, saved, ncalls, signals, deleted, img>>

\* the fetch answers 2xx: the server has made, replaced or removed the
\* record, or answers the collection it holds
RemoteSucceeds ==
    \E p \in Procs :
        LET o == run.ops[p]
        IN  /\ o.pc = "remote"
            /\ o.op = "update" => o.id \in IdsOf(run.server)
            /\ \E sid \in IF o.op = "create" THEN RaceServerIds \ UsedIds ELSE {""} :
                   LET event == IF o.op = "create" THEN ServerRecord(sid, o.data)
                                ELSE IF o.op = "update" THEN ServerRecord(o.id, o.data)
                                ELSE o.event
                       server == IF o.op = "create" THEN run.server \cup {event}
                                 ELSE IF o.op = "update"
                                 THEN {e \in run.server : e.id # o.id} \cup {event}
                                 ELSE IF o.op = "delete"
                                 THEN {e \in run.server : e.id # o.id}
                                 ELSE run.server
                   IN  run' = [run EXCEPT
                                  !.server = server,
                                  !.clock = @ + 1,
                                  !.ops[p] = [@ EXCEPT
                                      !.remote = "ok",
                                      !.event = event,
                                      !.newid = sid,
                                      !.response = IF o.op = "sync"
                                                   THEN StoreGetAll(run.server) ELSE <<>>,
                                      !.pc = IF o.op \in {"create", "update"}
                                             THEN "read" ELSE "write",
                                      !.at_remote = run.clock + 1]]
            /\ UNCHANGED <<db, idb, ls, last, saved, ncalls, signals, deleted, img>>

\* the fetch fails or answers an error: the catch block takes over
RemoteFails ==
    \E p \in Procs :
        LET o == run.ops[p]
        IN  /\ o.pc = "remote"
            /\ \E uuid \in IF o.op = "create" THEN RaceUUIDs \ UsedIds ELSE {""},
                  now \in IF o.op \in {"create", "update"} THEN Times ELSE {0} :
                   run' = [run EXCEPT
                              !.clock = @ + 1,
                              !.ops[p] = [@ EXCEPT
                                  !.remote = "failed",
                                  !.event = IF o.op = "create"
                                            THEN LocalEvent(o.data, uuid, now) ELSE @,
                                  !.newid = uuid,
                                  !.now = now,
                                  !.pc = IF o.op = "delete" THEN "write" ELSE "read",
                                  !.at_remote = run.clock + 1]]
            /\ UNCHANGED <<db, idb, ls, last, saved, ncalls, signals, deleted, img>>

\* await getAllEvents(): the call gets the store's records as they are now;
\* a fetchAndSync whose fetch failed returns them
Reads ==
    \E p \in Procs :
        LET o == run.ops[p]
        IN  /\ o.pc = "read"
            /\ run' = [run EXCEPT
                           !.clock = @ + 1,
                           !.ops[p] = [@ EXCEPT
                               !.snapshot = StoreGetAll(idb),
                               !.pc = IF o.op = "sync" THEN "done" ELSE "write",
                               !.at_read = run.clock + 1]]
            /\ UNCHANGED <<db, idb, ls, last, saved, ncalls, signals, deleted, img>>

\* a mutation that read the store again inside its write
Base_ReadsAgain(o, store) == StoreGetAll(store)

\* the array a create or update builds on: allEvents, as getAllEvents gave it
Base(o, store) == o.snapshot

\* a fetchAndSync that kept the local records the server did not answer
Cached_KeepsLocal(o, store) ==
    o.response \o SelectSeq(StoreGetAll(store), LAMBDA e : e.id \notin IdsOf(Elems(o.response)))

\* the array fetchAndSync saves: supabaseEvents, as the server answered it
Cached(o, store) == o.response

\* the array a call hands to saveAllEvents
Saves(o, store) ==
    IF o.op = "create" THEN Append(Base(o, store), o.event)
    ELSE IF o.op = "update"
    THEN IF o.remote = "ok" THEN Spliced(Base(o, store), o.id, o.event)
         ELSE Merged(Base(o, store), o.id, o.data, o.now)
    ELSE Cached(o, store)

\* await saveAllEvents(...) of create, update and fetchAndSync; await
\* deleteEvent(id) of delete
Writes ==
    \E p \in Procs :
        LET o == run.ops[p]
        IN  /\ o.pc = "write"
            /\ IF o.op = "delete"
               THEN /\ idb' = {e \in idb : e.id # o.id}
                    /\ ls' = ls
               ELSE /\ idb' = StoreClearAndPutAll(Saves(o, idb))
                    /\ ls' = <<JSONStringify(lightweightEvents(Saves(o, idb)))>>
            /\ run' = [run EXCEPT
                           !.clock = @ + 1,
                           !.ops[p] = [@ EXCEPT !.pc = "done",
                                                !.at_write = run.clock + 1]]
            /\ UNCHANGED <<db, last, saved, ncalls, signals, deleted, img>>

RaceNext ==
    \/ MutationCalls
    \/ RemoteSucceeds
    \/ RemoteFails
    \/ Reads
    \/ Writes

RaceSpec == RaceInit /\ [][RaceNext]_vars

----------------------------------------------------------------------------
\* The image helpers.  A reference is a sequence of tokens; includes, split,
\* join and the percent coding work on the tokens.

ObjectPublic == "/storage/v1/object/public/"
RenderPublic == "/storage/v1/render/image/public/"
\* the text that url.includes() looks for
StorageMarker == <<".supabase.co", ObjectPublic>>

\* String.prototype.includes
includes(s, sub) ==
    \E i \in 1..(Len(s) - Len(sub) + 1) : SubSeq(s, i, i + Len(sub) - 1) = sub

\* String.prototype.split on a separator of one token: the pieces between
\* the separators, empty pieces included
split(s, sep) ==
    LET at == {i \in DOMAIN s : s[i] = sep}
        cut(k) == IF k = 0 THEN 0
                  ELSE IF k > Cardinality(at) THEN Len(s) + 1
                  ELSE CHOOSE i \in at : Cardinality({j \in at : j < i}) = k - 1
    IN  [k \in 1..(Cardinality(at) + 1) |-> SubSeq(s, cut(k - 1) + 1, cut(k) - 1)]

\* Array.prototype.join
join(parts, sep) ==
    LET j[k \in 0..Len(parts)] ==
            IF k = 0 THEN <<>>
            ELSE IF k = 1 THEN parts[1]
            ELSE j[k - 1] \o <<sep>> \o parts[k]
    IN  j[Len(parts)]

\* decodeURIComponent throws URIError on a % that no two hex digits follow
Malformed(s) == \E i \in DOMAIN s : s[i] = "%"

decodeURIComponent(s) ==
    [i \in DOMAIN s |-> IF s[i] = "%20" THEN " " ELSE s[i]]

\* encodeURIComponent escapes everything but letters, digits and - _ . ! ~ * ' ( )
encodeURIComponent(s) ==
    [i \in DOMAIN s |->
        CASE s[i] = " " -> "%20"
          [] s[i] = "%" -> "%25"
          [] s[i] = "/" -> "%2F"
          [] s[i] = "data:" -> "data%3A"
          [] s[i] = "https://x" -> "https%3A%2F%2Fx"
          [] s[i] = "https://example.com" -> "https%3A%2F%2Fexample.com"
          [] OTHER -> s[i]]

\* what a call of a helper does: it returns a string or throws
Returned(value) == [status |-> "returned", value |-> value]
Threw == [status |-> "threw", value |-> <<>>]

\* the options of ImageTransformOptions a caller supplies
OptionKeys == {"width", "height", "quality", "format", "resize"}
AllOptions(width) ==
    [width |-> width, height |-> 480, quality |-> 80, format |-> "webp", resize |-> "cover"]
OptionSets ==
    {[k \in K |-> AllOptions(width)[k]] : K \in SUBSET OptionKeys, width \in {0, 640}}

\* params.append for each option that is truthy
Params(options) ==
    LET number(k) == IF k \in DOMAIN options /\ options[k] # 0
                     THEN <<<<k, ToString(options[k])>>>> ELSE <<>>
        string(k) == IF k \in DOMAIN options /\ options[k] # ""
                     THEN <<<<k, options[k]>>>> ELSE <<>>
    IN  number("width") \o number("height") \o number("quality")
            \o string("format") \o string("resize")

\* URLSearchParams.prototype.toString
QueryString(params) ==
    join([i \in DOMAIN params |-> <<params[i][1], "=", params[i][2]>>], "&")

getOptimizedImageUrl(url, options) ==
    IF url = EmptyString THEN Returned(EmptyString)
    ELSE IF startsWith(url, DataPrefix) THEN Returned(url)
    ELSE IF ~includes(url, StorageMarker) THEN Returned(url)
    ELSE
        LET urlParts == split(url, ObjectPublic)
        IN  IF Len(urlParts) < 2 THEN Returned(url)
            ELSE
                LET baseUrl == urlParts[1]
                    raw == split(urlParts[2], "/")
                IN  IF \E i \in DOMAIN raw : Malformed(raw[i]) THEN Threw
                    ELSE
                        LET bucket == encodeURIComponent(decodeURIComponent(Head(raw)))
                            path == join([i \in DOMAIN Tail(raw) |->
                                             encodeURIComponent(decodeURIComponent(Tail(raw)[i]))],
                                         "/")
                            transformUrl == baseUrl \o <<RenderPublic>> \o bucket \o <<"/">> \o path
                            queryString == QueryString(Params(options))
                        IN  Returned(IF queryString # EmptyString
                                     THEN transformUrl \o <<"?">> \o queryString
                                     ELSE transformUrl)

\* the variants of getResponsiveImageUrls that getImageSrcSet uses
Mobile == [width |-> 640, quality |-> 80, format |-> "webp"]
Tablet == [width |-> 1024, quality |-> 85, format |-> "webp"]
Desktop == [width |-> 1920, quality |-> 85, format |-> "webp"]

getImageSrcSet(url) ==
    IF url = EmptyString THEN Returned(EmptyString)
    ELSE IF ~includes(url, StorageMarker) \/ startsWith(url, DataPrefix)
    THEN Returned(EmptyString)
    ELSE
        LET mobile == getOptimizedImageUrl(url, Mobile)
            tablet == getOptimizedImageUrl(url, Tablet)
            desktop == getOptimizedImageUrl(url, Desktop)
        IN  IF mobile.status = "threw" THEN Threw
            ELSE Returned(mobile.value \o <<" 640w, ">> \o tablet.value \o <<" 1024w, ">>
                              \o desktop.value \o <<" 1920w">>)

\* the references the pages pass: nothing, an embedded image, a public
\* object of the storage host, that host, or another host, followed by any
\* tokens
Heads ==
    { <<>>, <<"data:">>, <<"https://x", ".supabase.co", ObjectPublic>>,
      <<"https://x", ".supabase.co">>, <<"https://example.com">> }
TailTokens == {"/", "b", " ", "%20", "%", ObjectPublic}
Tails == UNION {[1..n -> TailTokens] : n \in 0..MaxTail}
References == {head \o tail : head \in Heads, tail \in Tails}

TransformInit ==
    /\ db = "null"
    /\ idb = {}
    /\ ls = <<>>
    /\ last = NoCall
    /\ saved = <<>>
    /\ ncalls = 0
    /\ run = NoRun
    /\ signals = 0
    /\ deleted = {}
    /\ img \in {[op |-> "reference", url |-> url] : url \in References}

\* a page calls getOptimizedImageUrl(url, options)
TransformUrl ==
    /\ img.op = "reference"
    /\ \E options \in OptionSets :
           LET r == getOptimizedImageUrl(img.url, options)
           IN  img' = [op |-> "transformUrl", url |-> img.url, options |-> options,
                       status |-> r.status, value |-> r.value]
    /\ UNCHANGED <<db, idb, ls, last, saved, ncalls, run, signals, deleted>>

\* a page calls getImageSrcSet(url)
ImageSrcSet ==
    /\ img.op = "reference"
    /\ LET r == getImageSrcSet(img.url)
       IN  img' = [op |-> "srcSet", url |-> img.url, options |-> <<>>,
                   status |-> r.status, value |-> r.value]
    /\ UNCHANGED <<db, idb, ls, last, saved, ncalls, run, signals, deleted>>

TransformNext ==
    \/ TransformUrl
    \/ ImageSrcSet

TransformSpec == TransformInit /\ [][TransformNext]_vars

----------------------------------------------------------------------------
\* Properties.  They are stated on last, the call that has just settled.

\* how the last storage function of the call ended
LastTag == IF last.calls = <<>> THEN "" ELSE last.calls[Len(last.calls)]

\* the array holds exactly the records of S, each once
ExactlyRecords(array, S) ==
    /\ Elems(array) = S
    /\ Len(array) = Cardinality(S)

\* the array kept in a localStorage item, empty when the item is absent
LegacyArray(item) == IF item = <<>> THEN <<>> ELSE item[1]

RemoteFailed == last.remote \in {"http", "network"}

\* C1 as claimed: whenever the remote GET of fetchAndSync returns a non-2xx
\* status or fails, the call returns exactly the records the Local
\* Structured Store holds, and modifies neither store.
C1_FallbackReturnsStore ==
    (last.op = "sync" /\ RemoteFailed) =>
        /\ idb = last.pre_idb
        /\ ls = last.pre_ls
        /\ last.status = "resolved" => ExactlyRecords(last.value, last.pre_idb)

\* C1 amended: whenever the remote GET returns a non-2xx status or fails,
\* the call modifies neither store and returns what getAll() yields: exactly
\* the store's records when the store is read, and the content of the Legacy
\* Flat Cache (empty when it holds nothing) when the store cannot be opened,
\* which happens only without a usable handle; it rejects only when the
\* store's read request fails.
C1_FallbackReturnsGetAll ==
    (last.op = "sync" /\ RemoteFailed) =>
        /\ idb = last.pre_idb
        /\ ls = last.pre_ls
        /\ last.status = "resolved" =>
               /\ LastTag \in {"getAll:store", "getAll:legacy"}
               /\ LastTag = "getAll:store" => ExactlyRecords(last.value, last.pre_idb)
               /\ LastTag = "getAll:legacy" =>
                      /\ last.value = LegacyArray(last.pre_ls)
                      /\ last.pre_db \in {"null", "closed"}
        /\ last.status = "rejected" => LastTag = "getAll:rejected"

\* a populated store, a 500, and the store's records returned
C1_Witness ==
    /\ last.op = "sync"
    /\ last.remote = "http"
    /\ last.status = "resolved"
    /\ LastTag = "getAll:store"
    /\ last.pre_idb # {}
    /\ ExactlyRecords(last.value, idb)

C3_DeleteAlwaysLocal ==
    (last.op = "delete" /\ last.status = "resolved") =>
        /\ idb = {e \in last.pre_idb : e.id # last.id}
        /\ LastTag = "delete:ok"

\* a record deleted locally although the server answered 500
C3_Witness ==
    /\ last.op = "delete"
    /\ last.remote = "http"
    /\ last.status = "resolved"
    /\ last.id \in IdsOf(last.pre_idb)
    /\ Cardinality(last.pre_idb) >= 2
    /\ Cardinality(idb) = Cardinality(last.pre_idb) - 1

\* neither the cover image nor a media item of e is an embedded (data:) value
NoEmbedded(e) ==
    /\ "image" \in DOMAIN e => ~startsWith(e.image, DataPrefix)
    /\ "media" \in DOMAIN e => \A m \in Elems(e.media) : ~startsWith(m.url, DataPrefix)

\* C4 as claimed: for every collection S of records with distinct ids,
\* replaceAll(S) followed by getAll(), with no other operation in between,
\* returns a collection equal to S as a set.
C4_RoundTrip ==
    (last.op = "getAll" /\ last.after # <<>> /\ last.status = "resolved") =>
        Elems(last.value) = Elems(last.after[1])

\* C4 amended: a getAll() that directly follows a successful replaceAll(S)
\* returns exactly the records of S when it reads the store; when the store
\* cannot be opened it returns the legacy copies of S instead, which are the
\* records of S in order, with their embedded image and media values
\* stripped; it rejects only when the store's read request fails.
C4_RoundTripThroughStore ==
    (last.op = "getAll" /\ last.after # <<>>) =>
        LET S == last.after[1]
        IN  /\ LastTag = "getAll:store" =>
                   /\ last.status = "resolved"
                   /\ ExactlyRecords(last.value, Elems(S))
            /\ LastTag = "getAll:legacy" =>
                   /\ last.status = "resolved"
                   /\ last.pre_db \in {"null", "closed"}
                   /\ Len(last.value) = Len(S)
                   /\ \A i \in 1..Len(S) :
                          /\ NoEmbedded(last.value[i])
                          /\ NoEmbedded(S[i]) => last.value[i] = S[i]
                          /\ \A k \in (DOMAIN S[i]) \ {"image", "media"} :
                                 last.value[i][k] = S[i][k]
            /\ last.status = "rejected" => LastTag = "getAll:rejected"

\* two records, one with embedded media, written over a store that held
\* another record, and read back unchanged
C4_Witness ==
    /\ last.op = "getAll"
    /\ last.after # <<>>
    /\ LastTag = "getAll:store"
    /\ Len(last.after[1]) = 2
    /\ \E e \in last.after[2] : e.id \notin IdsOf(Elems(last.after[1]))
    /\ \E e \in Elems(last.after[1]) : ~NoEmbedded(e)
    /\ last.value = last.after[1]

C6_SynthesizedFields ==
    (last.op = "create" /\ RemoteFailed /\ last.status = "resolved") =>
        /\ last.value # <<>>
        /\ last.value[1].id = last.uuid
        /\ last.value[1].createdAt = last.now
        /\ last.value[1].updatedAt = last.now

\* the try block of create or update ran to its end: snapshot read, saved
TrySucceeded ==
    /\ Len(last.calls) = 2
    /\ last.calls[2] = "save:ok"

\* the store failed in the last storage function of the call
StoreFailedLast == LastTag \in {"getAll:rejected", "save:aborted", "save:mirror-failed"}

\* the records of pre other than the one with this id
Others(pre, id) == {e \in pre : e.id # id}

C8_CreateNeverRejects ==
    last.op = "create" =>
        /\ last.status = "resolved"
        /\ last.value # <<>>
        /\ last.value[1] \in idb

\* C8 amended: for every remote outcome create resolves with a record that
\* is then present in the Local Structured Store, unless the store fails in
\* the last read or persist step create attempts (the read request, the
\* store write or the write of the legacy mirror), in which case create
\* rejects.
C8_CreateRejectsOnlyOnStoreFailure ==
    last.op = "create" =>
        /\ last.status = "resolved" =>
               /\ last.value # <<>>
               /\ last.value[1] \in idb
               /\ LastTag = "save:ok"
        /\ last.status = "rejected" => StoreFailedLast
        /\ StoreFailedLast => last.status = "rejected"

\* the network is down and create still resolves with a stored record
C8_Witness ==
    /\ last.op = "create"
    /\ last.remote = "network"
    /\ last.status = "resolved"
    /\ last.value # <<>>
    /\ last.value[1].id = last.uuid
    /\ last.value[1] \in idb

C10_UpdateOnFailure ==
    ( /\ last.op = "update"
      /\ RemoteFailed
      /\ last.calls = <<"getAll:store", "save:ok">>
      /\ last.id \in IdsOf(last.pre_idb) ) =>
        LET e == CHOOSE x \in last.pre_idb : x.id = last.id
            merged == [k \in (DOMAIN e) \cup (DOMAIN last.data) \cup {"updatedAt"} |->
                          IF k = "updatedAt" THEN last.now
                          ELSE IF k \in DOMAIN last.data THEN last.data[k]
                          ELSE e[k]]
        IN  /\ last.status = "resolved"
            /\ last.value = <<merged>>
            /\ idb = Others(last.pre_idb, last.id) \cup {merged}

\* C13 as claimed: on any storage fault (failure to open the store, to
\* create the transaction, or of the read request itself) getAll resolves
\* with the content of the Legacy Flat Cache, empty when it holds nothing;
\* it never rejects to its caller.
C13_GetAllNeverThrows ==
    last.op = "getAll" =>
        /\ last.status = "resolved"
        /\ LastTag # "getAll:store" => last.value = LegacyArray(last.pre_ls)

C18_DeleteFromBothStores ==
    (last.op = "delete" /\ last.status = "resolved") =>
        /\ last.id \notin IdsOf(idb)
        /\ last.id \notin IdsOf(Elems(LegacyArray(ls)))

\* C19 as claimed: for every combination of remote outcome and local fault
\* fetchAndSync resolves with a collection and never rejects to its caller.
C19_SyncNeverThrows ==
    last.op = "sync" => last.status = "resolved"

\* C20 as claimed, its part on update: for every id and every data,
\* including data that carries its own id field, update(id, data) leaves
\* the set of ids held by the Local Structured Store unchanged and returns
\* a record whose id is the id passed in (stated for calls in which the
\* store works and holds a record for id).
C20_IdsImmutable ==
    ( /\ last.op = "update"
      /\ last.calls = <<"getAll:store", "save:ok">>
      /\ last.id \in IdsOf(last.pre_idb) ) =>
        /\ IdsOf(idb) = IdsOf(last.pre_idb)
        /\ last.value # <<>>
        /\ last.value[1].id = last.id

\* C15 as claimed: if opening the store, clearing it or writing any record
\* fails, replaceAll rejects to its caller, the Legacy Flat Cache is left as
\* it was before the call, and the Local Structured Store still holds its
\* previous collection.
C15_ReplaceAllFailsLoudly ==
    (last.op = "replaceAll" /\ LastTag \in {"save:aborted", "save:put-threw"}) =>
        /\ last.status = "rejected"
        /\ ls = last.pre_ls
        /\ idb = last.pre_idb

\* C11 as claimed: for every initial content of the Legacy Flat Cache and
\* of the Local Structured Store, running the Migration Routine twice in
\* succession leaves the store with the same contents as running it once
\* (stated for two runs whose replaceAll succeeds).
C11_MigrationIdempotent ==
    ( /\ last.op = "migrate"
      /\ last.after = <<"migration">>
      /\ last.calls = <<"save:ok">> ) =>
        idb = last.pre_idb

\* C12 as claimed: for every initial content of the Legacy Flat Cache,
\* after the Migration Routine completes the Legacy Flat Cache holds exactly
\* the content it held before the routine ran.
C12_MigrationKeepsLegacy ==
    (last.op = "migrate" /\ last.status = "resolved") =>
        ls = last.pre_ls

\* the calls of run that are saveAllEvents
Writers == {p \in DOMAIN run.ops : run.ops[p].op = "replaceAll"}

\* C14 as claimed: a getAll in flight together with a replaceAll observes
\* either the complete collection from before or the complete collection
\* of a replaceAll, never an empty or partly repopulated one; and when
\* every call in flight is a replaceAll that resolved, the store finally
\* holds exactly the collection of one of them.
C14_ReplaceAllAtomic ==
    /\ \A p \in DOMAIN run.ops :
           LET o == run.ops[p]
           IN  (o.op = "getAll" /\ o.overlaps /\ o.tag = "getAll:store") =>
                   \/ Elems(o.value) = run.before
                   \/ \E q \in Writers : Elems(o.value) = Elems(run.ops[q].events)
    /\ ( /\ Writers # {}
         /\ Writers = DOMAIN run.ops
         /\ \A p \in Writers : run.ops[p].status = "resolved" ) =>
           \E p \in Writers : idb = Elems(run.ops[p].events)

\* C16 as claimed: for any number of initialize() calls, including calls
\* issued before an earlier call's open has completed, at most one open of
\* the store is started, the schema-creation step runs at most once, and
\* every call resolves with the same live handle.
C16_InitializeOneShot ==
    /\ run.opens <= 1
    /\ run.upgrades <= 1
    /\ \A p, q \in DOMAIN run.ops :
           (run.ops[p].handle # 0 /\ run.ops[q].handle # 0) =>
               run.ops[p].handle = run.ops[q].handle

\* the options a caller supplied, in the order the parameters are appended
SuppliedParams(options) ==
    LET one(k) == IF k \in DOMAIN options
                  THEN <<<<k, IF k \in {"format", "resize"} THEN options[k]
                              ELSE ToString(options[k])>>>>
                  ELSE <<>>
    IN  one("width") \o one("height") \o one("quality") \o one("format") \o one("resize")

\* where the storage marker first ends in a reference (0 when it has none)
MarkerAt(url) ==
    LET at == {i \in 2..Len(url) : SubSeq(url, i - 1, i) = StorageMarker}
    IN  IF at = {} THEN 0 ELSE CHOOSE i \in at : \A j \in at : i <= j

\* what follows the marker
AfterMarker(url) == SubSeq(url, MarkerAt(url) + 1, Len(url))

\* a reference that can be split into base, bucket and path: the marker, a
\* bucket, a slash and a path
Splittable(url) ==
    /\ ~startsWith(url, DataPrefix)
    /\ MarkerAt(url) # 0
    /\ \E j \in 2..(Len(AfterMarker(url)) - 1) :
           /\ AfterMarker(url)[j] = "/"
           /\ \A k \in 1..(j - 1) : AfterMarker(url)[k] \notin {"/", ObjectPublic}

\* a reference <base>/storage/v1/object/public/<bucket>/<path> on the
\* storage host: the bucket is a plain name and no segment is empty
FollowsConvention(url) ==
    /\ Splittable(url)
    /\ LET segments == split(AfterMarker(url), "/")
       IN  /\ \A i \in DOMAIN segments : segments[i] # <<>>
           /\ \A i \in DOMAIN segments[1] : segments[1][i] = "b"

\* C21 as claimed: for every reference of the storage form and every
\* option set, getOptimizedImageUrl returns base, the render path, the same
\* bucket and path, and a query string of exactly the supplied options in
\* the order width, height, quality, format, resize (none when no option
\* was supplied).
C21_TransformCorrect ==
    (img.op = "transformUrl" /\ FollowsConvention(img.url)) =>
        /\ img.status = "returned"
        /\ img.value =
              SubSeq(img.url, 1, MarkerAt(img.url) - 1) \o <<RenderPublic>>
                  \o AfterMarker(img.url)
                  \o ( IF SuppliedParams(img.options) = <<>> THEN <<>>
                       ELSE <<"?">> \o QueryString(SuppliedParams(img.options)) )

\* C22 as claimed: for every reference that is an embedded (data:) image
\* or does not follow the storage convention, getOptimizedImageUrl returns
\* the reference unchanged and getImageSrcSet returns the empty string.
C22_LeavesOthersAlone ==
    ( /\ img.op \in {"transformUrl", "srcSet"}
      /\ startsWith(img.url, DataPrefix) \/ ~Splittable(img.url) ) =>
        /\ img.status = "returned"
        /\ img.value = IF img.op = "transformUrl" THEN img.url ELSE EmptyString

\* C23 as claimed: getOptimizedImageUrl never throws, whatever the input,
\* and returns the original reference when it cannot be split into base,
\* bucket and path.
C23_TransformNeverThrows ==
    img.op = "transformUrl" =>
        /\ img.status = "returned"
        /\ (MarkerAt(img.url) # 0 /\ ~Splittable(img.url)) => img.value = img.url

\* C24: a create, update or delete of the admin page that resolves
\* dispatches 'localStorageUpdate' exactly once, and it resolves only when
\* its write to the object store has completed; one that throws dispatches
\* nothing.
C24_SignalFollowsMutation ==
    last.op \in {"create", "update", "delete"} =>
        /\ last.status = "resolved" =>
               /\ signals = last.pre_signals + 1
               /\ LastTag \in {"save:ok", "delete:ok"}
        /\ last.status = "rejected" => signals = last.pre_signals

\* a second mutation resolves and the signal is dispatched a second time
C24_Witness ==
    /\ last.op \in {"create", "update", "delete"}
    /\ last.status = "resolved"
    /\ last.pre_signals = 1
    /\ signals = 2

\* C25 as claimed: a call made after an open has failed, or after the
\* handle obtained earlier has become unusable, starts a fresh open instead
\* of using the failed or stale handle: once it has settled, the module no
\* longer holds the stale handle.
C25_ReinitializesAfterFault ==
    (last.op # "none" /\ last.calls # <<>> /\ last.pre_db \in {"null", "closed"}) =>
        db # "closed"

\* the store reflects a mutation: the created record is there, the updated
\* record carries the new title, the deleted id is gone
Reflected(o) ==
    IF o.op = "create" THEN o.event \in idb
    ELSE IF o.op = "update" THEN \E e \in idb : e.id = o.id /\ e.title = o.data.title
    ELSE o.id \notin IdsOf(idb)

\* calls p and q have completed and no other call was made
BothCompleted(p, q) ==
    /\ p # q
    /\ run.ops[p].pc = "done"
    /\ run.ops[q].pc = "done"
    /\ \A r \in DOMAIN run.ops : r \notin {p, q} => run.ops[r].pc = "idle"

\* a create, or an update of a record the store held before the calls
CreatesOrUpdates(o) ==
    \/ o.op = "create"
    \/ o.op = "update" /\ o.id \in IdsOf(run.before)

\* C26 as claimed: when two creates, or a create and an update of another
\* record, were in flight together and both have completed, the object
\* store reflects both.
C26_NoLostUpdate ==
    \A p, q \in DOMAIN run.ops :
        ( /\ BothCompleted(p, q)
          /\ run.ops[p].op = "create"
          /\ CreatesOrUpdates(run.ops[q]) ) =>
            Reflected(run.ops[p]) /\ Reflected(run.ops[q])

\* C26 amended: of two such calls the one whose saveAllEvents ran last is
\* reflected, and the other is reflected exactly when its saveAllEvents ran
\* before the last writer's getAllEvents; otherwise its record is
\* discarded.
C26_LastWriterKeepsItsSnapshot ==
    \A p, q \in DOMAIN run.ops :
        ( /\ BothCompleted(p, q)
          /\ CreatesOrUpdates(run.ops[p])
          /\ CreatesOrUpdates(run.ops[q])
          /\ "create" \in {run.ops[p].op, run.ops[q].op}
          /\ run.ops[p].at_write > run.ops[q].at_write ) =>
            /\ Reflected(run.ops[p])
            /\ Reflected(run.ops[q]) <=> run.ops[q].at_write < run.ops[p].at_read

\* two creates overlapped, both completed, and one record was discarded
C26_Witness ==
    \E p, q \in DOMAIN run.ops :
        /\ BothCompleted(p, q)
        /\ run.ops[p].op = "create"
        /\ run.ops[q].op = "create"
        /\ run.ops[p].at_write > run.ops[q].at_write
        /\ run.ops[q].at_write > run.ops[p].at_read
        /\ ~Reflected(run.ops[q])

\* s is a fetchAndSync that the server answered before the fetch of
\* mutation m, and both have completed
SyncAnsweredBefore(s, m) ==
    /\ BothCompleted(s, m)
    /\ run.ops[s].op = "sync"
    /\ run.ops[s].remote = "ok"
    /\ run.ops[m].op \in {"create", "delete"} \/ CreatesOrUpdates(run.ops[m])
    /\ run.ops[s].at_remote < run.ops[m].at_remote

\* C27 as claimed: when a fetchAndSync whose response was produced before a
\* create, update or delete completes as well as that mutation, the object
\* store still reflects the mutation.
C27_NoStaleOverwrite ==
    \A s, m \in DOMAIN run.ops :
        SyncAnsweredBefore(s, m) => Reflected(run.ops[m])

\* C27 amended: the store reflects the mutation exactly when the
\* mutation's local write ran after the saveAllEvents of that fetchAndSync
\* (or when the deleted id was not in the response); when the
\* fetchAndSync wrote last, the store holds the older remote snapshot.
C27_LastWriterWins ==
    \A s, m \in DOMAIN run.ops :
        SyncAnsweredBefore(s, m) =>
            /\ Reflected(run.ops[m]) <=>
                   \/ run.ops[m].at_write > run.ops[s].at_write
                   \/ /\ run.ops[m].op = "delete"
                      /\ run.ops[m].id \notin IdsOf(Elems(run.ops[s].response))
            /\ run.ops[s].at_write > run.ops[m].at_write =>
                   idb = Elems(run.ops[s].response)

\* a fetchAndSync answered before a create wrote after it: the created
\* record is gone
C27_Witness ==
    \E s, m \in DOMAIN run.ops :
        /\ SyncAnsweredBefore(s, m)
        /\ run.ops[m].op = "create"
        /\ run.ops[s].at_write > run.ops[m].at_write
        /\ ~Reflected(run.ops[m])

\* C28 as claimed: once delete(id) has completed, no later getAll() returns
\* a record with that id until a create or a fetchAndSync adds it again;
\* neither the fallback to the legacy cache nor a later Migration Routine
\* brings it back.
C28_DeletedStaysDeleted ==
    /\ (last.op = "getAll" /\ last.status = "resolved") =>
           IdsOf(Elems(last.value)) \cap deleted = {}
    /\ (last.op = "migrate" /\ last.calls = <<"save:ok">>) =>
           IdsOf(idb) \cap deleted = {}

\* C29 as claimed: when the Migration Routine runs while the object store
\* already holds records, the store afterwards equals the store before: no
\* record is dropped and no embedded image or media item is replaced by
\* its stripped legacy copy.
C29_MigrationKeepsPopulatedStore ==
    (last.op = "migrate" /\ last.pre_idb # {} /\ last.calls \in {<<>>, <<"save:ok">>}) =>
        idb = last.pre_idb

\* C30 as claimed: when the remote call succeeded, create and update never
\* synthesize: the call, if it resolves, returns the server's record, and
\* create puts no record with a client-generated id into the store.
C30_SynthesisOnlyOnRemoteFailure ==
    (last.op \in {"create", "update"} /\ last.remote = "ok") =>
        /\ last.status = "resolved" => last.value = <<last.body>>
        /\ last.op = "create" => last.uuid \notin IdsOf(idb)
====
